---- MODULE Spec2Model ----
(***************************************************************************)
(* The pipeline engine of sumpy's _SystemBase (src/sumpy/system/_base.py): *)
(* discovery of the annotator mixins of a system class, the dependency     *)
(* graph, its linearisation into a pipeline, the allocation of the two     *)
(* data stores and the execution pass over them.                           *)
(***************************************************************************)
EXTENDS Naturals, Sequences, FiniteSets

VARIABLES
    clazz,              \* self.__class__.__bases__ : the bases of the system class
    _dependency_graph,  \* self._dependency_graph   : set of edges, or NoGraph
    _annotators,        \* self._annotators         : name -> annotator class
    _pipeline,          \* self._pipeline           : sequence of classes, or None
    pc,                 \* position of the running call ("idle": none running)
    entry,              \* the public method the caller invoked
    emitted,            \* nodes the topological_sort iteration has yielded
    inputs,             \* the `inputs` argument of the running call
    arg_nd,             \* the dict object the caller passed as ndarray_data
    arg_nd0,            \* its content when the call was made
    input_df,           \* the tabular store of the running call
    ndarray_data,       \* the matrix store of the running call
    df0,                \* the tabular store as handed to process_input
    nd0,                \* the matrix store as handed to process_input
    stage,              \* index into _pipeline of the process_input loop
    processed,          \* annotators whose process ran in this pass, in order
    error,              \* exception that ended the last call, or "none"
    output,             \* what the last summarize returned
    builds,             \* number of build() invocations per annotator class
    built,              \* order of the build() invocations of the last build
    lazy,               \* number of builds summarize started
    rebuilds,           \* number of explicit build_pipeline calls so far
    prev                \* input and output of the call before, if it was a summarize

vars == <<clazz, _dependency_graph, _annotators, _pipeline, pc, entry, emitted,
          inputs, arg_nd, arg_nd0, input_df, ndarray_data, df0, nd0, stage,
          processed, error, output, builds, built, lazy, rebuilds, prev>>

---------------------------------------------------------------------------
(* Bounds of the model *)

\* most mixins a system class lists directly among its bases
MaxBases == 2
\* most items in an input list
MaxRows == 2
\* most explicit build_pipeline calls made on one system instance
MaxRebuilds == 1
\* most columns a caller changes in the store before handing it on
MaxEdits == 2

---------------------------------------------------------------------------
(* The class universe.  The annotator mixins are the inputs of the model:  *)
(* each declares a name and the four sets of its contract.                 *)

Mixins == {"A", "B", "W", "M", "R", "S", "L", "E", "T"}

\* a fixed order in which a class statement lists the mixins
MixinOrder == <<"A", "B", "W", "M", "R", "S", "L", "E", "T">>

\* clazz.__bases__ for every class but the system class itself
bases(c) ==
    CASE c = "object"         -> <<>>
      [] c = "_AnnotatorBase" -> <<"object">>
      [] c = "_SystemBase"    -> <<"object">>
      [] c = "BaseSys"        -> <<"_SystemBase", "A">>
      [] c = "M"              -> <<"A">>
      [] c = "R"              -> <<"M">>
      [] OTHER                -> <<"_AnnotatorBase">>

\* clazz.name(self)
name(c) == c

\* clazz.requires(self)
requires(c) ==
    CASE c = "A" -> {"doc text"}
      [] c = "B" -> {"x"}
      [] c = "M" -> {"x"}
      [] c = "S" -> {"y"}
      [] c = "L" -> {"z"}
      [] c = "T" -> {"x"}
      [] OTHER   -> {}

\* clazz.returns(self)
returns(c) ==
    CASE c = "A" -> {"x"}
      [] c = "B" -> {"y"}
      [] c = "W" -> {"x", "z"}
      [] c = "R" -> {"z"}
      [] c = "S" -> {"x"}
      [] c = "L" -> {"z"}
      [] OTHER   -> {}

\* clazz.ndarray_requires(self)
ndarray_requires(c) ==
    CASE c = "R" -> {"m"}
      [] OTHER   -> {}

\* clazz.ndarray_returns(self)
ndarray_returns(c) ==
    CASE c = "M" -> {"m"}
      [] c = "R" -> {"k"}
      [] OTHER   -> {}

RECURSIVE Ancestors(_)
\* the classes c is a subclass of, c included
Ancestors(c) ==
    {c} \cup UNION {Ancestors(bases(c)[i]) : i \in DOMAIN bases(c)}

\* issubclass(c, d) for a class c other than the system class
issubclass(c, d) == d \in Ancestors(c)

---------------------------------------------------------------------------
(* build_dependency_graph *)

\* the edges, with those of the required names drawn from the annotator to the name
Edges_outward(c) ==
    {<<name(c), n>> : n \in requires(c) \cup ndarray_requires(c)
                              \cup returns(c) \cup ndarray_returns(c)}

\* the edges one registered annotator adds to G
Edges(c) ==
    {<<req, name(c)>> : req \in requires(c) \cup ndarray_requires(c)}
        \cup {<<name(c), rtype>> : rtype \in returns(c) \cup ndarray_returns(c)}

\* the bases check_mixins recurses into, in order
WalkedBases(bs) ==
    SelectSeq(bs, LAMBDA b : issubclass(b, "_AnnotatorBase") /\ b # "_AnnotatorBase")

RECURSIVE check_mixins(_, _, _)
\* The depth-first walk: todo is the sequence of pending check_mixins calls,
\* reg the classes registered so far, in registration order.
check_mixins(todo, visited, reg) ==
    IF todo = <<>> THEN reg
    ELSE LET c == Head(todo) IN
         IF c \in visited THEN check_mixins(Tail(todo), visited, reg)
         ELSE check_mixins(
                  WalkedBases(bases(c)) \o Tail(todo),
                  visited \cup {c},
                  IF ~issubclass(c, "_SystemBase") /\ issubclass(c, "_AnnotatorBase")
                      THEN Append(reg, c) ELSE reg)

\* the classes registered for a system class with the given bases
Registered(sysbases) == check_mixins(WalkedBases(sysbases), {}, <<>>)

RECURSIVE Registry(_)
\* self._annotators after registering the classes of reg in order:
\* a later class replaces an earlier one of the same name
Registry(reg) ==
    IF reg = <<>> THEN [n \in {} |-> "object"]
    ELSE LET c    == reg[Len(reg)]
             rest == Registry(SubSeq(reg, 1, Len(reg) - 1))
         IN [n \in DOMAIN rest \cup {name(c)} |-> IF n = name(c) THEN c ELSE rest[n]]

\* the DiGraph G: add_edge creates the nodes, so the edges are all there is
Graph(reg) == UNION {Edges(reg[i]) : i \in DOMAIN reg}

\* G.nodes()
Nodes(G) == {e[1] : e \in G} \cup {e[2] : e \in G}

---------------------------------------------------------------------------
(* networkx.topological_sort, by its contract *)

\* an iteration over the nodes in no particular order, as G.nodes() gives them
Ready_unordered(n, done, G) == TRUE

\* every predecessor of n has been yielded
Ready(n, done, G) == \A e \in G : e[2] = n => e[1] \in done

RECURSIVE Drain(_, _)
\* the nodes a sort can yield, starting with done already yielded
Drain(done, G) ==
    LET more == {n \in Nodes(G) \ done : Ready(n, done, G)} IN
    IF more = {} THEN done ELSE Drain(done \cup more, G)

\* the graph has a cycle: some node can never be yielded
IsCyclic(G) == Drain({}, G) # Nodes(G)

---------------------------------------------------------------------------
(* Values of the stores *)

\* self._pipeline = None
None == <<"None">>
\* self._annotators = None
NoAnnotators == [n \in {"None"} |-> "None"]
\* self._dependency_graph = None
NoGraph == {<<"None", "None">>}

\* an unknown cell of the tabular store (NaN)
NaN == <<"NaN", 0>>
\* an unknown slot of the matrix store (None)
NoneVal == <<"None", 0>>
\* a value the caller supplied
Pre == <<"pre", 0>>

\* no tabular store
NoDF == [columns |-> {}, n |-> 0, cell |-> <<>>]
\* no matrix store
NoND == [k \in {"None"} |-> NoneVal]
\* the ndarray_data argument left at its default
NotGiven == [given |-> FALSE, d |-> <<>>]
\* no inputs
NoInputs == [shape |-> "none", n |-> 0]
\* nothing returned
NoOutput == [df |-> NoDF, nd |-> NoND]
NoPrev == [inputs |-> NoInputs, output |-> NoOutput]

MatrixKeys == {"m", "k"}

\* what a caller passes as `inputs`: a list or tuple of n texts, a mapping,
\* or a DataFrame
Inputs ==
    [shape : {"list"}, n : 0..MaxRows]
        \cup {[shape |-> "tuple", n |-> 1], [shape |-> "dict", n |-> 0],
              [shape |-> "DataFrame", n |-> 1]}

\* what a caller passes as `ndarray_data`: nothing, or a dict with some keys filled
NdArgs ==
    {NotGiven} \cup {[given |-> TRUE, d |-> [k \in S |-> Pre]] : S \in SUBSET MatrixKeys}

\* the bases of a system class that lists the classes of S
SysBases(S) ==
    (IF "BaseSys" \in S THEN <<"BaseSys">> ELSE <<"_SystemBase">>)
        \o SelectSeq(MixinOrder, LAMBDA c : c \in S)

SystemClasses ==
    {SysBases(S) : S \in {T \in SUBSET (Mixins \cup {"BaseSys"}) : Cardinality(T) <= MaxBases}}

\* the elements of a sequence
Range(s) == {s[i] : i \in DOMAIN s}

---------------------------------------------------------------------------
(* __init__ *)

Init ==
    /\ clazz \in SystemClasses
    /\ _dependency_graph = NoGraph
    /\ _annotators = NoAnnotators
    /\ _pipeline = None
    /\ pc = "idle"
    /\ entry = "none"
    /\ emitted = {}
    /\ inputs = NoInputs
    /\ arg_nd = NotGiven
    /\ arg_nd0 = NotGiven
    /\ input_df = NoDF
    /\ ndarray_data = NoND
    /\ df0 = NoDF
    /\ nd0 = NoND
    /\ stage = 0
    /\ processed = <<>>
    /\ error = "none"
    /\ output = NoOutput
    /\ builds = [c \in Mixins |-> 0]
    /\ built = <<>>
    /\ lazy = 0
    /\ rebuilds = 0
    /\ prev = NoPrev

\* the locals of a call, as a call finds them
FreshCall ==
    /\ emitted' = {}
    /\ input_df' = NoDF
    /\ ndarray_data' = NoND
    /\ df0' = NoDF
    /\ nd0' = NoND
    /\ stage' = 0
    /\ processed' = <<>>
    /\ error' = "none"
    /\ output' = NoOutput

instance == <<_dependency_graph, _annotators, _pipeline>>
history == <<builds, built, lazy, rebuilds, prev>>
stores == <<input_df, ndarray_data, df0, nd0, stage, processed, output>>
args == <<inputs, arg_nd, arg_nd0>>

---------------------------------------------------------------------------
(* summarize and build_pipeline *)

\* a summarize that builds the pipeline on every call
NeedsBuild_always(p) == TRUE

\* summarize's test: not hasattr(self, "_pipeline") or self._pipeline is None
NeedsBuild(p) == p = None

\* summarize(inputs) is called
Summarize(inp) ==
    /\ pc = "idle"
    /\ entry' = "summarize"
    /\ inputs' = inp
    /\ arg_nd' = NotGiven
    /\ arg_nd0' = NotGiven
    /\ FreshCall
    /\ IF NeedsBuild(_pipeline)
         THEN pc' = "build_dependency_graph" /\ lazy' = lazy + 1
         ELSE pc' = "prepare_inputs" /\ lazy' = lazy
    /\ UNCHANGED <<clazz, instance, builds, built, rebuilds, prev>>

\* build_pipeline() is called by the caller
BuildPipelineCall ==
    /\ pc = "idle"
    /\ rebuilds < MaxRebuilds
    /\ entry' = "build_pipeline"
    /\ inputs' = NoInputs
    /\ arg_nd' = NotGiven
    /\ arg_nd0' = NotGiven
    /\ FreshCall
    /\ pc' = "build_dependency_graph"
    /\ rebuilds' = rebuilds + 1
    /\ prev' = NoPrev
    /\ UNCHANGED <<clazz, instance, builds, built, lazy>>

\* build_dependency_graph()
BuildDependencyGraph ==
    /\ pc = "build_dependency_graph"
    /\ _annotators' = Registry(Registered(clazz))
    /\ _dependency_graph' = Graph(Registered(clazz))
    /\ pc' = "topological_sort"
    /\ UNCHANGED <<clazz, _pipeline, entry, emitted, args, stores, error, history>>

\* self._pipeline = [] and the call of nx.topological_sort.  A sort that
\* returns a list raises on a cyclic graph at once; a sort that returns a
\* generator raises only when the iteration runs out of nodes it can yield.
TopologicalSort ==
    /\ pc = "topological_sort"
    /\ _pipeline' = <<>>
    /\ built' = <<>>
    /\ emitted' = {}
    /\ \E eager \in BOOLEAN :
         IF eager /\ IsCyclic(_dependency_graph)
           THEN pc' = "raised" /\ error' = "NetworkXUnfeasible"
           ELSE pc' = "iterate" /\ error' = error
    /\ UNCHANGED <<clazz, _dependency_graph, _annotators, entry, args, stores,
                   builds, lazy, rebuilds, prev>>

\* one iteration of the loop over the sorted nodes
BuildNode ==
    /\ pc = "iterate"
    /\ \E node \in Nodes(_dependency_graph) \ emitted :
         /\ Ready(node, emitted, _dependency_graph)
         /\ emitted' = emitted \cup {node}
         /\ IF node \in DOMAIN _annotators
              THEN /\ _pipeline' = Append(_pipeline, _annotators[node])
                   /\ builds' = [builds EXCEPT ![_annotators[node]] = @ + 1]
                   /\ built' = Append(built, _annotators[node])
              ELSE UNCHANGED <<_pipeline, builds, built>>
    /\ UNCHANGED <<clazz, _dependency_graph, _annotators, pc, entry, args, stores,
                   error, lazy, rebuilds, prev>>

\* the loop ends: the sort is exhausted, or it raises because of a cycle
BuildEnd ==
    /\ pc = "iterate"
    /\ ~ \E node \in Nodes(_dependency_graph) \ emitted :
           Ready(node, emitted, _dependency_graph)
    /\ IF emitted = Nodes(_dependency_graph)
         THEN /\ pc' = IF entry = "summarize" THEN "prepare_inputs" ELSE "returned"
              /\ error' = error
         ELSE /\ pc' = "raised"
              /\ error' = "NetworkXUnfeasible"
    /\ emitted' = {}
    /\ UNCHANGED <<clazz, instance, entry, args, stores, history>>

---------------------------------------------------------------------------
(* prepare_inputs *)

\* a union over the returns alone
all_cols_returns_only(p) == UNION {returns(p[i]) : i \in DOMAIN p}

\* the unions prepare_inputs collects over the pipeline
all_cols(p) == UNION {requires(p[i]) \cup returns(p[i]) : i \in DOMAIN p}
all_keys(p) == UNION {ndarray_requires(p[i]) \cup ndarray_returns(p[i]) : i \in DOMAIN p}

\* an allocation that sets every key of the union to None, supplied or not
AllocateKeys_overwrite(d, keys) ==
    [k \in DOMAIN d \cup keys |-> IF k \in keys THEN NoneVal ELSE d[k]]

\* the matrix store: the caller's dict (or a new one) with every missing key set to None
AllocateKeys(d, keys) ==
    [k \in DOMAIN d \cup keys |-> IF k \in DOMAIN d THEN d[k] ELSE NoneVal]

\* isinstance(inputs, list) or isinstance(inputs, tuple)
IsSequence(inp) == inp.shape \in {"list", "tuple"}

\* pd.DataFrame([{"doc id": i, "doc text": text} ...], columns=["doc id"] + all_cols)
DataFrame(inp, cols) ==
    [columns |-> {"doc id"} \cup cols,
     n       |-> inp.n,
     cell    |-> [c \in {"doc id"} \cup cols |->
                    [i \in 1..inp.n |->
                        IF c = "doc id" THEN <<"id", i - 1>>
                        ELSE IF c = "doc text" THEN <<"text", i - 1>>
                        ELSE NaN]]]

\* prepare_inputs(inputs, ndarray_data) is called by the caller
PrepareInputsCall(inp, nd) ==
    /\ pc = "idle"
    /\ entry' = "prepare_inputs"
    /\ inputs' = inp
    /\ arg_nd' = nd
    /\ arg_nd0' = nd
    /\ FreshCall
    /\ pc' = "prepare_inputs"
    /\ prev' = NoPrev
    /\ UNCHANGED <<clazz, instance, builds, built, lazy, rebuilds>>

\* the body of prepare_inputs
PrepareInputs ==
    /\ pc = "prepare_inputs"
    /\ IF _pipeline = None
         THEN \* for ann in self._pipeline: None is not iterable
              /\ pc' = "raised"
              /\ error' = "TypeError"
              /\ UNCHANGED <<arg_nd, input_df, ndarray_data, df0, nd0, stage>>
         ELSE LET nd == AllocateKeys(arg_nd.d, all_keys(_pipeline))
                  df == DataFrame(inputs, all_cols(_pipeline))
              IN /\ arg_nd' = IF arg_nd.given THEN [arg_nd EXCEPT !.d = nd] ELSE arg_nd
                 /\ IF IsSequence(inputs)
                      THEN /\ input_df' = df
                           /\ ndarray_data' = nd
                           /\ error' = error
                           /\ IF entry = "summarize"
                                THEN pc' = "process_input" /\ df0' = df /\ nd0' = nd
                                     /\ stage' = 1
                                ELSE pc' = "held" /\ UNCHANGED <<df0, nd0, stage>>
                      ELSE /\ pc' = "raised"
                           /\ error' = "Exception"
                           /\ UNCHANGED <<input_df, ndarray_data, df0, nd0, stage>>
    /\ UNCHANGED <<clazz, instance, entry, emitted, inputs, arg_nd0, processed, output, history>>

---------------------------------------------------------------------------
(* the caller, holding the stores prepare_inputs returned *)

\* the columns in which the store df differs from the store prepare_inputs returned
Edited(df) ==
    LET fresh == DataFrame(inputs, all_cols(_pipeline)) IN
    {c \in fresh.columns : c \notin df.columns \/ df.cell[c] # fresh.cell[c]}

\* the caller fills column c, in every row or in the first row only
Supply(c, rows) ==
    /\ pc = "held"
    /\ c \in input_df.columns \ {"doc id"}
    /\ rows \in {1, input_df.n} \cap 1..input_df.n
    /\ \E i \in 1..rows : input_df.cell[c][i] = NaN
    /\ LET df == [input_df EXCEPT !.cell[c] =
                     [i \in 1..input_df.n |-> IF i <= rows /\ @[i] = NaN THEN Pre ELSE @[i]]]
       IN /\ Cardinality(Edited(df)) <= MaxEdits
          /\ input_df' = df
    /\ UNCHANGED <<clazz, instance, pc, entry, emitted, args, ndarray_data, df0, nd0,
                   stage, processed, error, output, history>>

\* the caller drops column c
DropColumn(c) ==
    /\ pc = "held"
    /\ c \in input_df.columns \ {"doc id"}
    /\ LET df == [input_df EXCEPT !.columns = @ \ {c},
                                  !.cell = [d \in input_df.columns \ {c} |-> @[d]]]
       IN /\ Cardinality(Edited(df)) <= MaxEdits
          /\ input_df' = df
    /\ UNCHANGED <<clazz, instance, pc, entry, emitted, args, ndarray_data, df0, nd0,
                   stage, processed, error, output, history>>

---------------------------------------------------------------------------
(* process_input *)

\* a run_stage that looks at every column and key, not at the declared outputs
run_stage_any_column(ann, df, nd) ==
    \/ \E c \in df.columns : \E i \in 1..df.n : df.cell[c][i] = NaN
    \/ \E k \in DOMAIN nd : nd[k] = NoneVal

\* a run_stage that looks at the tabular outputs only
run_stage_tabular_only(ann, df, nd) ==
    \E rtype \in returns(ann) : \E i \in 1..df.n : df.cell[rtype][i] = NaN

\* a run_stage that looks at the matrix outputs only
run_stage_matrix_only(ann, df, nd) ==
    \E rtype \in ndarray_returns(ann) : nd[rtype] = NoneVal

\* a pass without memoization: every stage runs
run_stage_always(ann, df, nd) == TRUE

\* a run_stage that looks at the required columns as well as the returned ones
run_stage_declared_columns(ann, df, nd) ==
    \/ \E c \in requires(ann) \cup returns(ann) : \E i \in 1..df.n : df.cell[c][i] = NaN
    \/ \E rtype \in ndarray_returns(ann) : nd[rtype] = NoneVal

\* run_stage: some declared output is still unknown
run_stage(ann, df, nd) ==
    \/ \E rtype \in returns(ann) : \E i \in 1..df.n : df.cell[rtype][i] = NaN
    \/ \E rtype \in ndarray_returns(ann) : nd[rtype] = NoneVal

\* the assert loop over the returns alone
ColumnsPresent_returns_only(ann, cols) == returns(ann) \subseteq cols

\* the two assert loops of one iteration
ColumnsPresent(ann, cols) == returns(ann) \subseteq cols /\ requires(ann) \subseteq cols

\* ann.process(self, input_df, ndarray_data): fills every declared output
process_df(ann, df) ==
    [df EXCEPT !.cell = [c \in df.columns |->
        IF c \in returns(ann) THEN [i \in 1..df.n |-> <<name(ann), 0>>] ELSE @[c]]]

process_nd(ann, nd) ==
    [k \in DOMAIN nd |-> IF k \in ndarray_returns(ann) THEN <<name(ann), 0>> ELSE nd[k]]

\* process_input(input_df, ndarray_data) is called by the caller with the stores it holds
ProcessInputCall ==
    /\ pc = "held"
    /\ entry' = "process_input"
    /\ pc' = "process_input"
    /\ df0' = input_df
    /\ nd0' = ndarray_data
    /\ stage' = 1
    /\ processed' = <<>>
    /\ inputs' = NoInputs
    /\ arg_nd' = NotGiven
    /\ arg_nd0' = NotGiven
    /\ UNCHANGED <<clazz, instance, emitted, input_df, ndarray_data, error, output, history>>

\* one iteration of the loop over the pipeline
ProcessStage ==
    /\ pc = "process_input"
    /\ stage <= Len(_pipeline)
    /\ LET ann == _pipeline[stage] IN
         IF ~ColumnsPresent(ann, df0.columns)
           THEN /\ pc' = "raised"
                /\ error' = "AssertionError"
                /\ UNCHANGED <<input_df, ndarray_data, stage, processed>>
           ELSE /\ IF run_stage(ann, input_df, ndarray_data)
                     THEN /\ input_df' = process_df(ann, input_df)
                          /\ ndarray_data' = process_nd(ann, ndarray_data)
                          /\ processed' = Append(processed, ann)
                     ELSE UNCHANGED <<input_df, ndarray_data, processed>>
                /\ stage' = stage + 1
                /\ UNCHANGED <<pc, error>>
    /\ UNCHANGED <<clazz, instance, entry, emitted, args, df0, nd0, output,
                   history>>

\* return input_df, ndarray_data; in summarize, build_summary gets the two stores
ProcessReturn ==
    /\ pc = "process_input"
    /\ stage > Len(_pipeline)
    /\ output' = [df |-> input_df, nd |-> ndarray_data]
    /\ pc' = "returned"
    /\ UNCHANGED <<clazz, instance, entry, emitted, args, input_df, ndarray_data, df0, nd0,
                   stage, processed, error, history>>

\* the call is over: its locals are gone, the instance stays as the call left it
Return ==
    /\ pc \in {"returned", "raised"}
    /\ pc' = "idle"
    /\ prev' = IF pc = "returned" /\ entry = "summarize"
                 THEN [inputs |-> inputs, output |-> output] ELSE prev
    /\ entry' = "none"
    /\ inputs' = NoInputs
    /\ arg_nd' = NotGiven
    /\ arg_nd0' = NotGiven
    /\ FreshCall
    /\ UNCHANGED <<clazz, instance, builds, built, lazy, rebuilds>>

---------------------------------------------------------------------------

\* build_pipeline, called by the caller or by summarize
Build ==
    \/ BuildPipelineCall
    \/ BuildDependencyGraph
    \/ TopologicalSort
    \/ BuildNode
    \/ BuildEnd

\* the execution pass and the end of a call
Pass ==
    \/ PrepareInputs
    \/ ProcessStage
    \/ ProcessReturn
    \/ Return

\* a caller that uses summarize, and build_pipeline
Next ==
    \/ \E inp \in Inputs : Summarize(inp)
    \/ Build
    \/ Pass

Spec == Init /\ [][Next]_vars

\* a caller that builds the pipeline, calls prepare_inputs, pre-supplies
\* values in the stores it got and hands them to process_input
NextStores ==
    \/ Build
    \/ \E inp \in Inputs, nd \in NdArgs : PrepareInputsCall(inp, nd)
    \/ \E c \in {"doc text", "x", "y", "z"}, rows \in 1..MaxRows : Supply(c, rows)
    \/ \E c \in {"doc text", "x", "y", "z"} : DropColumn(c)
    \/ ProcessInputCall
    \/ Pass

SpecStores == Init /\ [][NextStores]_vars

---------------------------------------------------------------------------
(* Vocabulary of the properties *)

\* the annotators active in the system: those discovery registered
Active == {_annotators[n] : n \in DOMAIN _annotators}

\* the names an annotator produces and the names it needs
Produces(c) == returns(c) \cup ndarray_returns(c)
Needs(c) == requires(c) \cup ndarray_requires(c)

\* c feeds d: d requires a field or matrix key that c returns
Feeds(c, d) == Produces(c) \cap Needs(d) # {}

\* the declarations of the active annotators contain no cycle
Acyclic == ~IsCyclic(_dependency_graph)

\* a pipeline is cached and no build is iterating over the sorted nodes
PipelineBuilt == _pipeline # None /\ pc # "iterate"

\* the field names whose columns the pass asserts for ann
ColumnsOf(ann) == requires(ann) \cup returns(ann)

\* p comes before q in the sequence s
Before(p, q, s) == \E i, j \in DOMAIN s : i < j /\ s[i] = p /\ s[j] = q

\* an execution pass has ended normally
PassReturned == pc = "returned" /\ entry \in {"summarize", "process_input"}

\* column f is populated in every row of df
Populated(f, df) == f \in df.columns /\ \A i \in 1..df.n : df.cell[f][i] # NaN

---------------------------------------------------------------------------
(* C1 *)

\* C1: for an acyclic set of active annotators the built pipeline respects
\* the dependencies: an annotator that returns a field or matrix key comes
\* before every annotator that requires it.
C1_PipelineRespectsDependencies ==
    (PipelineBuilt /\ Acyclic) =>
        \A P, C \in Active : Feeds(P, C) => Before(P, C, _pipeline)

C1_Witness ==
    /\ PipelineBuilt /\ Acyclic
    /\ Len(_pipeline) >= 4
    /\ \E P, C \in Active : Feeds(P, C) /\ Before(P, C, _pipeline)

---------------------------------------------------------------------------
(* C2 *)

\* C2: when the declarations contain a cycle, building the pipeline fails and
\* the instance holds no cached pipeline afterwards, not even a partial one.
C2_CycleLeavesNoPipeline ==
    (pc = "raised" /\ error = "NetworkXUnfeasible") => _pipeline = None

---------------------------------------------------------------------------
(* C3 *)

\* C3: summarize builds the pipeline at most once; with the pipeline built,
\* summarize invokes no build, so that after summarize calls alone every
\* annotator of the pipeline was built exactly once; and a summarize call
\* with the input of the summarize call before it returns the same output.
C3_SummarizeIdempotent ==
    /\ lazy <= 1
    /\ \A c \in Mixins : builds[c] <= lazy + rebuilds
    /\ (pc = "returned" /\ entry = "summarize" /\ rebuilds = 0) =>
           \A c \in Mixins :
               builds[c] = IF c \in Range(_pipeline) THEN 1 ELSE 0
    /\ (pc = "returned" /\ entry = "summarize" /\ prev.inputs = inputs) =>
           output = prev.output

C3_Witness ==
    /\ pc = "returned" /\ entry = "summarize"
    /\ prev.inputs = inputs /\ inputs.n >= 2
    /\ rebuilds = 0
    /\ Len(_pipeline) >= 2 /\ Len(processed) >= 2
    /\ output = prev.output

---------------------------------------------------------------------------
(* C4 *)

\* field f is handed to the pass populated in every row, key k is handed filled
FieldSupplied(f) == df0.n >= 1 /\ Populated(f, df0)
KeySupplied(k) == k \in DOMAIN nd0 /\ nd0[k] # NoneVal

\* C4 (as stated): if a field or a matrix key is handed to the execution pass
\* fully populated, the process of an annotator that declares it among its
\* outputs is never invoked during that pass.
C4_AnySuppliedOutputSkips ==
    (pc \in {"process_input", "returned"} /\ Acyclic) =>
        \A i \in DOMAIN _pipeline :
            ((\E f \in returns(_pipeline[i]) : FieldSupplied(f))
                \/ (\E k \in ndarray_returns(_pipeline[i]) : KeySupplied(k)))
            => _pipeline[i] \notin Range(processed)

\* every declared output of ann is handed to the pass populated
AllSupplied(ann) ==
    /\ \A f \in returns(ann) : Populated(f, df0)
    /\ \A k \in ndarray_returns(ann) : KeySupplied(k)

\* C4 (amended): if every field an annotator returns is handed to the pass
\* populated in every row and every matrix key it returns is handed filled,
\* its process is never invoked during that pass.
C4_AllSuppliedOutputsSkip ==
    (pc \in {"process_input", "returned"}) =>
        \A i \in DOMAIN _pipeline :
            AllSupplied(_pipeline[i]) => _pipeline[i] \notin Range(processed)

C4_Witness ==
    /\ PassReturned
    /\ df0.n >= 1
    /\ \E i \in DOMAIN _pipeline :
         /\ Cardinality(returns(_pipeline[i])) >= 2
         /\ AllSupplied(_pipeline[i])
         /\ _pipeline[i] \notin Range(processed)
    /\ processed # <<>>

---------------------------------------------------------------------------
(* C5 *)

\* the annotators that return field f
Producers(f) == {c \in Active : f \in returns(c)}

---------------------------------------------------------------------------
(* C6 *)

\* C6: when prepare_inputs rejects its input, nothing was allocated: there is
\* no tabular store and the matrix store the caller passed is as it was.
C6_BadInputAllocatesNothing ==
    (pc = "raised" /\ error = "Exception") =>
        (input_df = NoDF /\ arg_nd = arg_nd0)

---------------------------------------------------------------------------
(* C7 *)

\* C7: when two active annotators return the same field, the composition is
\* rejected: no pipeline holding both of them is ever built.
C7_ReturnCollisionRejected ==
    PipelineBuilt =>
        ~ \E i, j \in DOMAIN _pipeline :
              i # j /\ returns(_pipeline[i]) \cap returns(_pipeline[j]) # {}

---------------------------------------------------------------------------
(* C8 *)

\* C8: neither a list or tuple of texts nor a tabular input makes
\* prepare_inputs raise its bad-input error.
C8_BothShapesAccepted ==
    (inputs.shape \in {"list", "tuple", "DataFrame"}) => error # "Exception"

---------------------------------------------------------------------------
(* C9 *)

\* the annotators of the pipeline before position k
Preceding(k) == {_pipeline[j] : j \in 1..(k - 1)}

\* a pass over a store lacking a declared column does not return
C9_MissingColumnIsFatal ==
    PassReturned =>
        \A i \in DOMAIN _pipeline : ColumnsOf(_pipeline[i]) \subseteq df0.columns

\* C9 (as stated): a pass over a store lacking a declared requires or returns
\* column fails, and it fails before the process of any annotator was invoked.
C9_FailsBeforeAnyProcess ==
    /\ C9_MissingColumnIsFatal
    /\ (pc = "raised" /\ error = "AssertionError") => processed = <<>>

\* C9 (amended): a pass over a store lacking a declared requires or returns
\* column fails at the turn of the first annotator declaring a missing column,
\* before its process and that of every later annotator; only annotators
\* preceding it in the pipeline have been processed.
C9_FailsAtFirstOffender ==
    /\ C9_MissingColumnIsFatal
    /\ (pc = "raised" /\ error = "AssertionError") =>
           /\ stage \in DOMAIN _pipeline
           /\ ~(ColumnsOf(_pipeline[stage]) \subseteq df0.columns)
           /\ \A j \in 1..(stage - 1) : ColumnsOf(_pipeline[j]) \subseteq df0.columns
           /\ Range(processed) \subseteq Preceding(stage)

C9_Witness ==
    /\ pc = "raised" /\ error = "AssertionError"
    /\ processed # <<>>
    /\ stage < Len(_pipeline)

---------------------------------------------------------------------------
(* C10 *)

\* at its turn, some declared output of ann is unknown
UnknownOutput(ann) ==
    \/ \E f \in returns(ann) : \E i \in 1..input_df.n : input_df.cell[f][i] = NaN
    \/ \E k \in ndarray_returns(ann) : ndarray_data[k] = NoneVal

\* C10: when the turn of an annotator comes, its process is invoked if and
\* only if one of its tabular outputs is unknown in some row or one of its
\* matrix outputs is unknown; and process is invoked at no other moment.
C10_RunsIffOutputUnknown ==
    [][ /\ (pc = "process_input" /\ pc' = "process_input" /\ stage' = stage + 1) =>
              IF UnknownOutput(_pipeline[stage])
                THEN processed' = Append(processed, _pipeline[stage])
                ELSE processed' = processed
        /\ (processed' # processed /\ processed' # <<>>) =>
              (pc = "process_input" /\ stage' = stage + 1)
      ]_vars

\* a downstream annotator ran although the annotator feeding it was skipped
C10_Witness ==
    /\ PassReturned
    /\ \E i, j \in DOMAIN _pipeline :
         /\ i < j
         /\ Feeds(_pipeline[i], _pipeline[j])
         /\ _pipeline[i] \notin Range(processed)
         /\ _pipeline[j] \in Range(processed)
         /\ AllSupplied(_pipeline[i])
         /\ df0.n >= 1

---------------------------------------------------------------------------
(* C11 *)

\* C11: for an acyclic set of annotators, whenever the process of an
\* annotator is invoked during a pass, every field it requires is populated
\* in every row and every matrix key it requires is known, also when no active
\* annotator returns the required name.
C11_RequiresPopulatedAtProcess ==
    [][ (Acyclic /\ processed' # processed /\ processed' # <<>>) =>
            LET ann == processed'[Len(processed')] IN
                /\ \A f \in requires(ann) : Populated(f, input_df)
                /\ \A k \in ndarray_requires(ann) : ndarray_data[k] # NoneVal
      ]_vars

---------------------------------------------------------------------------
(* C12 *)

\* the cached pipeline holds every annotator the sort of an acyclic graph
\* yields, each of them built
CompletePipeline ==
    /\ Acyclic
    /\ Range(_pipeline) =
           {_annotators[n] : n \in DOMAIN _annotators \cap Nodes(_dependency_graph)}
    /\ built = _pipeline

\* C12: wherever a call tests or uses the cached pipeline and finds one
\* (not None), it is the complete, fully built pipeline: no call runs against
\* a pipeline that a failed build left empty or partial.
C12_CachedPipelineComplete ==
    (_pipeline # None /\ pc \in {"idle", "prepare_inputs", "process_input"}) =>
        CompletePipeline

---------------------------------------------------------------------------
(* C13 *)

\* the annotator nodes among the nodes of ns
AnnotatorNodes(ns) == {_annotators[n] : n \in DOMAIN _annotators \cap ns}

\* C13: a build invokes build once on each annotator of the pipeline it
\* produces, in pipeline order; when the build of an annotator runs, the build
\* of every annotator returning a field or matrix key it requires is over; and
\* the pipeline holds the annotator nodes the sort yielded and nothing for the
\* field and matrix-key nodes.
C13_BuildsInPipelineOrder ==
    (_pipeline # None) =>
        /\ built = _pipeline
        /\ \A i, j \in DOMAIN built : built[i] = built[j] => i = j
        /\ \A C \in Range(built) : \A P \in Active :
               Feeds(P, C) => Before(P, C, built)
        /\ (pc = "iterate") =>
               /\ Range(_pipeline) = AnnotatorNodes(emitted)
               /\ Len(_pipeline) = Cardinality(emitted \cap DOMAIN _annotators)
        /\ (pc = "returned" /\ entry = "build_pipeline") =>
               /\ Range(_pipeline) = AnnotatorNodes(Nodes(_dependency_graph))
               /\ Len(_pipeline) =
                      Cardinality(DOMAIN _annotators \cap Nodes(_dependency_graph))

C13_Witness ==
    /\ pc = "returned" /\ entry = "build_pipeline"
    /\ Len(built) >= 4
    /\ \E i, j, k \in DOMAIN built :
         /\ i < j /\ j < k
         /\ Feeds(built[i], built[j]) /\ Feeds(built[j], built[k])

---------------------------------------------------------------------------
(* C14 *)

\* the annotators at positions i < j of the pipeline both return field f
Collide(i, j, f) ==
    /\ i \in DOMAIN _pipeline /\ j \in DOMAIN _pipeline /\ i < j
    /\ f \in returns(_pipeline[i]) \cap returns(_pipeline[j])

\* a summarize over at least one item has returned
SummarizeReturned == pc = "returned" /\ entry = "summarize" /\ inputs.n >= 1

\* the positions in processed of the annotators that return f
Writers(f) == {k \in DOMAIN processed : f \in returns(processed[k])}

\* C14 (as stated): when two annotators of the pipeline return the same
\* field, the process of both runs and after the pass the field holds the
\* value of the one that comes later in the pipeline.
C14_LastWriterWins ==
    SummarizeReturned =>
        \A i, j \in DOMAIN _pipeline : \A f \in returns(_pipeline[i]) :
            Collide(i, j, f) =>
                /\ _pipeline[i] \in Range(processed)
                /\ _pipeline[j] \in Range(processed)
                /\ \A r \in 1..output.df.n :
                       output.df.cell[f][r] = <<name(_pipeline[j]), 0>>

\* C14 (amended): when two annotators of the pipeline return the same field,
\* after the pass the field holds the value of the last annotator returning
\* it whose process ran.  The first annotator of the pipeline returning the
\* field always runs; a later one runs only if it declares another output,
\* and is skipped otherwise, so that the earlier value stays.
C14_LastRunWriterWins ==
    SummarizeReturned =>
        \A i, j \in DOMAIN _pipeline : \A f \in returns(_pipeline[i]) :
            Collide(i, j, f) =>
                /\ Writers(f) # {}
                /\ \A k \in Writers(f) :
                       (\A m \in Writers(f) : m <= k) =>
                           \A r \in 1..output.df.n :
                               output.df.cell[f][r] = <<name(processed[k]), 0>>
                /\ (\A h \in 1..(i - 1) : f \notin returns(_pipeline[h])) =>
                       _pipeline[i] \in Range(processed)
                /\ (_pipeline[j] \in Range(processed)) =>
                       Produces(_pipeline[j]) # {f}
                /\ (Produces(_pipeline[j]) = {f}) =>
                       \A r \in 1..output.df.n :
                           output.df.cell[f][r] # <<name(_pipeline[j]), 0>>

\* the later of two colliding annotators was skipped: the first writer won
C14_Witness ==
    /\ SummarizeReturned
    /\ \E i, j \in DOMAIN _pipeline : \E f \in {"x", "z"} :
         /\ Collide(i, j, f)
         /\ _pipeline[j] \notin Range(processed)
         /\ \A r \in 1..output.df.n : output.df.cell[f][r] = <<name(_pipeline[i]), 0>>
    /\ \E i, j \in DOMAIN _pipeline : \E f \in {"x", "z"} :
         /\ Collide(i, j, f)
         /\ _pipeline[j] \in Range(processed)
         /\ \A r \in 1..output.df.n : output.df.cell[f][r] = <<name(_pipeline[j]), 0>>

---------------------------------------------------------------------------
(* C15 *)

\* prepare_inputs has returned its two stores to the caller
PrepareReturned == pc = "held"

\* C15: the matrix store prepare_inputs returns has a slot for every key some
\* annotator of the pipeline requires or returns; a key the supplied store
\* lacked is unknown, and every entry of the supplied store is there unchanged.
C15_MatrixStoreAllocation ==
    PrepareReturned =>
        /\ all_keys(_pipeline) \subseteq DOMAIN ndarray_data
        /\ DOMAIN ndarray_data = all_keys(_pipeline) \cup DOMAIN arg_nd0.d
        /\ \A k \in all_keys(_pipeline) \ DOMAIN arg_nd0.d : ndarray_data[k] = NoneVal
        /\ \A k \in DOMAIN arg_nd0.d : ndarray_data[k] = arg_nd0.d[k]
        /\ arg_nd0.given => arg_nd.d = ndarray_data

\* a store supplied with one of the two keys of the pipeline filled
C15_Witness ==
    /\ PrepareReturned /\ Acyclic
    /\ arg_nd0.given
    /\ \E k \in all_keys(_pipeline) \cap DOMAIN arg_nd0.d : ndarray_data[k] = Pre
    /\ \E k \in all_keys(_pipeline) \ DOMAIN arg_nd0.d : ndarray_data[k] = NoneVal

---------------------------------------------------------------------------
(* C16 *)

\* summarize holds the tabular store as prepare_inputs returned it (df0)
SummarizePrepared == entry = "summarize" /\ pc \in {"process_input", "returned"}

\* C16: for a list or tuple of N items the tabular store prepare_inputs
\* returns has N rows, row i carrying the index of the i-th item, and one
\* column per field some annotator of the pipeline requires or returns, plus
\* the index column; every cell of a field an annotator returns is unknown,
\* and no cell is populated but the index and the text of the item.
C16_TabularStoreAllocation ==
    SummarizePrepared =>
        /\ IsSequence(inputs)
        /\ df0.n = inputs.n
        /\ df0.columns =
               {"doc id"} \cup UNION {ColumnsOf(_pipeline[k]) : k \in DOMAIN _pipeline}
        /\ DOMAIN df0.cell = df0.columns
        /\ \A c \in df0.columns : DOMAIN df0.cell[c] = 1..inputs.n
        /\ \A i \in 1..df0.n : df0.cell["doc id"][i] = <<"id", i - 1>>
        /\ \A i \in 1..df0.n :
               "doc text" \in df0.columns => df0.cell["doc text"][i] = <<"text", i - 1>>
        /\ \A c \in df0.columns \ {"doc id", "doc text"} :
               \A i \in 1..df0.n : df0.cell[c][i] = NaN
        /\ \A k \in DOMAIN _pipeline : \A f \in returns(_pipeline[k]) :
               \A i \in 1..df0.n : df0.cell[f][i] = NaN

C16_Witness ==
    /\ SummarizePrepared
    /\ inputs.shape = "list" /\ inputs.n = MaxRows
    /\ {"doc text", "x", "y"} \subseteq df0.columns
    /\ df0.cell["doc id"][MaxRows] = <<"id", MaxRows - 1>>
    /\ df0.cell["y"][MaxRows] = NaN

---------------------------------------------------------------------------
(* C17 *)

\* the number of positions of the sequence s that hold c
Occurrences(c, s) == Cardinality({i \in DOMAIN s : s[i] = c})

\* C17: after a build that succeeded, every annotator discovery registered
\* is in the pipeline exactly once and its build was invoked, whatever its
\* contract declares, also when it declares nothing at all.
C17_EveryRegisteredIsBuilt ==
    (pc = "returned" /\ entry = "build_pipeline") =>
        \A c \in Active :
            /\ Occurrences(c, _pipeline) = 1
            /\ Occurrences(c, built) = 1

---------------------------------------------------------------------------
(* C18 *)

\* C18: the process of an annotator that declares no outputs is never
\* invoked, whatever the input and the stores handed to the pass hold.
C18_NoOutputsNeverProcessed ==
    \A k \in DOMAIN processed :
        returns(processed[k]) \cup ndarray_returns(processed[k]) # {}

\* a pass returned over a pipeline with such an annotator, whose required
\* field was still unknown in some row when the pass started
C18_Witness ==
    /\ PassReturned
    /\ df0.n >= 1
    /\ processed # <<>>
    /\ \E i \in DOMAIN _pipeline :
         /\ Produces(_pipeline[i]) = {}
         /\ requires(_pipeline[i]) # {}
         /\ \E f \in requires(_pipeline[i]) : ~Populated(f, df0)
         /\ _pipeline[i] \notin Range(processed)

====
